---- MODULE Spec2Model ----
(***************************************************************************)
(* Model of the NumPy network of 01_FCnn_PTvsNP.ipynb: class               *)
(* FullyConnectedNN_np (constructor, _forward_prop, _back_prop, fit,       *)
(* predict_single_data, predict) together with the notebook globals it     *)
(* reads (the array X and NumPy's global random generator).                *)
(*                                                                         *)
(* Reals are fixed-point integers: the real r is the integer r * Scale.    *)
(* NumPy 1-D arrays are sequences, 2-D arrays are records                  *)
(* [r |-> rows, c |-> columns, a |-> sequence of rows].  A NumPy call that *)
(* raises is modelled by its definedness condition; the raised exception   *)
(* ends the running call and is recorded in err.                           *)
(***************************************************************************)
EXTENDS Integers, Sequences, FiniteSets

(***************************************************************************)
(* Bounds of the model.                                                    *)
(***************************************************************************)
Scale == 1000         \* fixed-point resolution: 1.0 is Scale
RngModulus == 4       \* number of states of the random generator
MaxEpochs == 2        \* largest epochs argument of fit
MaxFits == 1          \* number of fit calls in one behaviour
MaxPredicts == 1      \* number of predict / predict_single_data calls
MaxCells == 4         \* CNN notebook: number of cells run in one behaviour
MaxBatches == 2       \* CNN notebook: batches a loop processes at most
MaxBackCalls == 2     \* training steps (_forward_prop, _back_prop) in one behaviour
Channels == 2         \* CNN notebook: channels of an image (3 in CIFAR10)
Pixels == 2           \* CNN notebook: pixels of a channel (32 * 32 in CIFAR10)
MaxImages == 2        \* CNN notebook: images loaded from one dataset

(***************************************************************************)
(* Fixed-point arithmetic.                                                 *)
(***************************************************************************)
Abs(a) == IF a >= 0 THEN a ELSE -a

Div(a, b) == IF a >= 0 THEN a \div b ELSE -((-a) \div b)

Mul(a, b) == Div(a * b, Scale)

One == Scale

RECURSIVE SumN(_, _)
SumN(s, n) == IF n <= 0 THEN 0 ELSE s[n] + SumN(s, n - 1)

\* IEEE float64 values that are not numbers of the model's range: inf is
\* Inf, -inf is -Inf, nan is NaN.  They enter only as components of an input
\* vector, so only the operations of _forward_prop handle them.
Inf == 1000000000

NaN == 2 * Inf

IsInf(a) == a = Inf \/ a = -Inf

\* np.tanh on one value: odd, tanh(0) = 0, saturating (tanh(inf) = 1),
\* tanh(nan) = nan; below saturation the Pade approximant
\* x (15 + x^2) / (15 + 6 x^2)
TanhScalar(v) ==
  LET m == Abs(v)
      m2 == (m * m) \div Scale
      p == IF m >= 3 * Scale THEN Scale
           ELSE (m * (15 * Scale + m2)) \div (15 * Scale + 6 * m2)
      t == IF p > Scale THEN Scale ELSE p
  IN IF v = NaN THEN NaN ELSE IF v >= 0 THEN t ELSE -t

\* a plausible variant: the logistic activation (1 + tanh(v / 2)) / 2
activity_sigmoid(v) ==
  [i \in 1..Len(v) |-> (Scale + TanhScalar(Div(v[i], 2))) \div 2]

\* np.tanh, elementwise (self.activity)
activity(v) == [i \in 1..Len(v) |-> TanhScalar(v[i])]

\* np.cosh on one value (series up to the sixth power)
CoshScalar(v) ==
  LET v2 == Mul(v, v)
      v4 == Mul(v2, v2)
      v6 == Mul(v4, v2)
  IN Scale + v2 \div 2 + v4 \div 24 + v6 \div 720

\* def tanh_derivative(x): return 1 / np.cosh(x) ** 2
tanh_derivative(v) == Div(Scale * Scale * Scale, CoshScalar(v) * CoshScalar(v))

\* self.activity_derivative, elementwise
activity_derivative(v) == [i \in 1..Len(v) |-> tanh_derivative(v[i])]

(***************************************************************************)
(* NumPy's global random generator: a linear congruential generator with   *)
(* RngModulus states; rand() returns a value of [0, 1).                    *)
(***************************************************************************)
RngNext(s) == (5 * s + 3) % RngModulus

RECURSIVE RngAdvance(_, _)
RngAdvance(s, n) == IF n <= 0 THEN s ELSE RngAdvance(RngNext(s), n - 1)

\* the value in [0, 1) delivered in generator state s
RngUniform(s) == (s * Scale) \div RngModulus

\* np.random.randint(n) delivered in generator state s: a value of 0 .. n-1
RngInt(s, n) == (s * n) \div RngModulus

\* np.random.rand(r, c): r * c consecutive draws, row by row
Rand(s, r, c) ==
  [r |-> r, c |-> c,
   a |-> [i \in 1..r |-> [j \in 1..c |->
            RngUniform(RngAdvance(s, (i - 1) * c + j))]]]

(***************************************************************************)
(* Arrays.                                                                 *)
(***************************************************************************)
Shape(W) == <<W.r, W.c>>

\* array whose rows really are W.r sequences of W.c entries
WellFormed(W) ==
  /\ Len(W.a) = W.r
  /\ \A i \in 1..W.r : Len(W.a[i]) = W.c

\* 2 * M - 1, elementwise
TwoTimesMinusOne(M) ==
  [r |-> M.r, c |-> M.c,
   a |-> [i \in 1..M.r |-> [j \in 1..M.c |-> 2 * M.a[i][j] - Scale]]]

\* a plausible variant: operands must have the same length
BroadcastStrict(u, v) == Len(u) = Len(v)

\* NumPy broadcasting of two 1-D arrays
BroadcastOK(u, v) == Len(u) = Len(v) \/ Len(u) = 1 \/ Len(v) = 1

BLen(u, v) == IF Len(u) = 1 THEN Len(v) ELSE Len(u)

At(u, i) == IF Len(u) = 1 THEN u[1] ELSE u[i]

VecSub(u, v) == [i \in 1..BLen(u, v) |-> At(u, i) - At(v, i)]

VecMul(u, v) == [i \in 1..BLen(u, v) |-> Mul(At(u, i), At(v, i))]

\* v[1:]
Tail1(v) == [i \in 1..(Len(v) - 1) |-> v[i + 1]]

\* np.concatenate((np.ones(1), v))
WithBias(v) == <<One>> \o [i \in 1..Len(v) |-> v[i]]

\* W[1:]
Rows1(W) ==
  LET n == IF W.r >= 1 THEN W.r - 1 ELSE 0
  IN [r |-> n, c |-> W.c, a |-> [i \in 1..n |-> W.a[i + 1]]]

\* W.T
Transpose(W) ==
  [r |-> W.c, c |-> W.r,
   a |-> [j \in 1..W.c |-> [i \in 1..W.r |-> W.a[i][j]]]]

\* a plausible variant: surplus inputs are ignored
DotDefinedLoose(v, W) == Len(v) >= W.r

\* np.dot(v, W) of a 1-D array and a 2-D array is defined when ...
DotDefined(v, W) == Len(v) = W.r

\* the float product a * b is nan: an operand is nan, or inf times zero
ProductIsNaN(a, b) ==
  \/ a = NaN
  \/ b = NaN
  \/ (IsInf(a) /\ b = 0)
  \/ (IsInf(b) /\ a = 0)

\* the float product a * b is inf (sgn = 1) or -inf (sgn = -1)
ProductIsInf(a, b, sgn) ==
  /\ ~ProductIsNaN(a, b)
  /\ (IsInf(a) \/ IsInf(b))
  /\ (IF (a > 0) = (b > 0) THEN 1 ELSE -1) = sgn

\* component j of np.dot(v, W): the float sum of the products v[i] * W[i][j]
DotEntry(v, W, j) ==
  LET I == 1..W.r
  IN IF \E i \in I : ProductIsNaN(v[i], W.a[i][j]) THEN NaN
     ELSE IF /\ \E i \in I : ProductIsInf(v[i], W.a[i][j], 1)
             /\ \E i \in I : ProductIsInf(v[i], W.a[i][j], -1) THEN NaN
     ELSE IF \E i \in I : ProductIsInf(v[i], W.a[i][j], 1) THEN Inf
     ELSE IF \E i \in I : ProductIsInf(v[i], W.a[i][j], -1) THEN -Inf
     ELSE Div(SumN([i \in I |-> v[i] * W.a[i][j]], W.r), Scale)

\* a number of the model's range
Finite(a) == -Inf < a /\ a < Inf

\* np.dot(v, W): with finite operands every component is the plain sum
Dot(v, W) ==
  IF \A i \in 1..W.r : Finite(v[i]) /\ \A j \in 1..W.c : Finite(W.a[i][j])
  THEN [j \in 1..W.c |->
          Div(SumN([i \in 1..W.r |-> v[i] * W.a[i][j]], W.r), Scale)]
  ELSE [j \in 1..W.c |-> DotEntry(v, W, j)]

\* v.reshape(1, n)
ReshapeDefined(v, n) == n >= 0 /\ Len(v) = n

\* layer.T.dot(delta) for layer of shape (1, p) and delta of shape (1, q)
Outer(layer, delta) ==
  [r |-> Len(layer), c |-> Len(delta),
   a |-> [i \in 1..Len(layer) |-> [j \in 1..Len(delta) |->
            Mul(layer[i], delta[j])]]]

\* learning_rate * M
ScaleBy(lr, M) ==
  [r |-> M.r, c |-> M.c,
   a |-> [i \in 1..M.r |-> [j \in 1..M.c |-> Mul(lr, M.a[i][j])]]]

\* W += M is defined when M broadcasts to the shape of W
IAddDefined(W, M) == (M.r = W.r \/ M.r = 1) /\ (M.c = W.c \/ M.c = 1)

\* W += M keeps the array W and adds into its entries
IAdd(W, M) ==
  [r |-> W.r, c |-> W.c,
   a |-> [i \in 1..W.r |-> [j \in 1..W.c |->
            W.a[i][j] + M.a[IF M.r = 1 THEN 1 ELSE i][IF M.c = 1 THEN 1 ELSE j]]]]

\* a plausible slip: delta_vec.reverse() is missing
ReverseMissing(s) == s

Reverse(s) == [i \in 1..Len(s) |-> s[Len(s) + 1 - i]]

(***************************************************************************)
(* FullyConnectedNN_np.__init__                                            *)
(***************************************************************************)
\* a plausible slip: the bias row forgotten
InitWeightNoBias(s, net_arch, layer) ==
  TwoTimesMinusOne(Rand(s, net_arch[layer + 1], net_arch[layer + 2]))

\* w = 2*np.random.rand(net_arch[layer] + 1, net_arch[layer+1]) - 1
\* (layer counts from 0 as in the source)
InitWeight(s, net_arch, layer) ==
  TwoTimesMinusOne(Rand(s, net_arch[layer + 1] + 1, net_arch[layer + 2]))

\* a plausible variant: empty layers rejected as well
InitWeightDefinedStrict(net_arch, layer) ==
  net_arch[layer + 1] > 0 /\ net_arch[layer + 2] > 0

\* np.random.rand raises ValueError on a negative dimension
InitWeightDefined(net_arch, layer) ==
  net_arch[layer + 1] + 1 >= 0 /\ net_arch[layer + 2] >= 0

RECURSIVE InitLoop(_, _, _, _)
InitLoop(net_arch, layer, s, ws) ==
  IF layer >= Len(net_arch) - 1
  THEN [err |-> "", rng |-> s, weights |-> ws]
  ELSE IF ~InitWeightDefined(net_arch, layer)
       THEN [err |-> "ValueError", rng |-> s, weights |-> ws]
       ELSE LET w == InitWeight(s, net_arch, layer)
            IN InitLoop(net_arch, layer + 1, RngAdvance(s, w.r * w.c),
                        Append(ws, w))

\* result of FullyConnectedNN_np(net_arch) in generator state s
Init_np(net_arch, s) == InitLoop(net_arch, 0, s, <<>>)

(***************************************************************************)
(* FullyConnectedNN_np._forward_prop                                       *)
(***************************************************************************)
\* for i in range(len(self.weights)-1): ... y.append(activity)
RECURSIVE ForwardLoop(_, _, _)
ForwardLoop(w, y, i) ==
  IF i >= Len(w) - 1
  THEN [err |-> "", y |-> y]
  ELSE IF i + 1 > Len(y)
       THEN [err |-> "IndexError", y |-> y]
       ELSE IF ~DotDefined(y[i + 1], w[i + 1])
            THEN [err |-> "ValueError", y |-> y]
            ELSE ForwardLoop(w,
                   Append(y, WithBias(activity(Dot(y[i + 1], w[i + 1])))),
                   i + 1)

\* a plausible slip: the bias is added after the last layer as well
ForwardLastBiased(w, h) ==
  IF h.err # "" THEN h
  ELSE IF Len(h.y) = 0 \/ Len(w) = 0
       THEN [err |-> "IndexError", y |-> h.y]
       ELSE IF ~DotDefined(h.y[Len(h.y)], w[Len(w)])
            THEN [err |-> "ValueError", y |-> h.y]
            ELSE [err |-> "",
                  y |-> Append(h.y,
                          WithBias(activity(Dot(h.y[Len(h.y)], w[Len(w)]))))]

\* the last layer: no bias is added
ForwardLast(w, h) ==
  IF h.err # "" THEN h
  ELSE IF Len(h.y) = 0 \/ Len(w) = 0
       THEN [err |-> "IndexError", y |-> h.y]
       ELSE IF ~DotDefined(h.y[Len(h.y)], w[Len(w)])
            THEN [err |-> "ValueError", y |-> h.y]
            ELSE [err |-> "",
                  y |-> Append(h.y, activity(Dot(h.y[Len(h.y)], w[Len(w)])))]

\* _forward_prop(x): "y = x" makes y the caller's list object, so every
\* y.append is also an append to x.  Field y is the returned trace, field x
\* the caller's list when the call ends.
forward_prop(w, x) ==
  LET h == ForwardLast(w, ForwardLoop(w, x, 0))
  IN [err |-> h.err, y |-> h.y, x |-> h.y]

(***************************************************************************)
(* FullyConnectedNN_np._back_prop                                          *)
(***************************************************************************)
\* for i in range(self.layers-2, 0, -1): ... delta_vec.append(error)
RECURSIVE DeltaLoop(_, _, _, _)
DeltaLoop(w, y, dv, i) ==
  IF i < 1
  THEN [err |-> "", delta_vec |-> dv]
  ELSE IF i + 1 > Len(w) \/ i + 1 > Len(y)
       THEN [err |-> "IndexError", delta_vec |-> dv]
       ELSE LET Wt == Transpose(Rows1(w[i + 1]))
                last == dv[Len(dv)]
            IN IF ~DotDefined(last, Wt)
               THEN [err |-> "ValueError", delta_vec |-> dv]
               ELSE LET error == Dot(last, Wt)
                        act == Tail1(y[i + 1])
                    IN IF ~BroadcastOK(error, act)
                       THEN [err |-> "ValueError", delta_vec |-> dv]
                       ELSE DeltaLoop(w, y,
                              Append(dv, VecMul(error, activity_derivative(act))),
                              i - 1)

\* a plausible slip: operands swapped and the result assigned
UpdateWeightSwapped(W, layer, delta, lr) == ScaleBy(lr, Outer(delta, layer))

\* a plausible slip: -= for +=
UpdateWeightMinus(W, layer, delta, lr) ==
  IAdd(W, ScaleBy(-lr, Outer(layer, delta)))

\* self.weights[i] += learning_rate*layer.T.dot(delta)
UpdateWeight(W, layer, delta, lr) == IAdd(W, ScaleBy(lr, Outer(layer, delta)))

\* for i in range(len(self.weights)): reshape, reshape, +=
RECURSIVE UpdateLoop(_, _, _, _, _, _)
UpdateLoop(w, net_arch, y, dv, lr, i) ==
  IF i >= Len(w)
  THEN [err |-> "", weights |-> w]
  ELSE IF i + 1 > Len(y) \/ i + 2 > Len(net_arch) \/ i + 1 > Len(dv)
       THEN [err |-> "IndexError", weights |-> w]
       ELSE IF \/ ~ReshapeDefined(y[i + 1], net_arch[i + 1] + 1)
               \/ ~ReshapeDefined(dv[i + 1], net_arch[i + 2])
               \/ ~IAddDefined(w[i + 1], Outer(y[i + 1], dv[i + 1]))
            THEN [err |-> "ValueError", weights |-> w]
            ELSE UpdateLoop(
                   [w EXCEPT ![i + 1] = UpdateWeight(@, y[i + 1], dv[i + 1], lr)],
                   net_arch, y, dv, lr, i + 1)

\* a plausible slip: the last weight matrix is adjusted as soon as its
\* gradient is known, before the hidden gradients are computed from it
back_prop_eager(w, net_arch, nlayers, y, target, lr) ==
  IF Len(y) = 0 \/ Len(w) = 0
  THEN [err |-> "IndexError", weights |-> w, delta_vec |-> <<>>]
  ELSE
  LET out == y[Len(y)]
  IN IF ~BroadcastOK(target, out)
     THEN [err |-> "ValueError", weights |-> w, delta_vec |-> <<>>]
     ELSE
     LET error == VecSub(target, out)
         last == VecMul(error, activity_derivative(out))
         n == Len(w)
         early == /\ Len(y) >= n
                  /\ IAddDefined(w[n], Outer(y[n], last))
         w1 == IF early THEN [w EXCEPT ![n] = UpdateWeight(@, y[n], last, lr)]
               ELSE w
         d == DeltaLoop(w1, y, <<last>>, nlayers - 2)
     IN IF d.err # ""
        THEN [err |-> d.err, weights |-> w, delta_vec |-> d.delta_vec]
        ELSE LET dv == Reverse(d.delta_vec)
                 u == UpdateLoop(w, net_arch, y, dv, lr, 0)
             IN [err |-> u.err, weights |-> u.weights, delta_vec |-> dv]

\* _back_prop(y, target, learning_rate) on weights w; fields: the exception
\* raised (or ""), the weights when the call ends, the gradient list built
back_prop(w, net_arch, nlayers, y, target, lr) ==
  IF Len(y) = 0
  THEN [err |-> "IndexError", weights |-> w, delta_vec |-> <<>>]
  ELSE
  LET out == y[Len(y)]
  IN IF ~BroadcastOK(target, out)
     THEN [err |-> "ValueError", weights |-> w, delta_vec |-> <<>>]
     ELSE
     LET error == VecSub(target, out)
         d == DeltaLoop(w, y, <<VecMul(error, activity_derivative(out))>>,
                        nlayers - 2)
     IN IF d.err # ""
        THEN [err |-> d.err, weights |-> w, delta_vec |-> d.delta_vec]
        ELSE LET dv == Reverse(d.delta_vec)
                 u == UpdateLoop(w, net_arch, y, dv, lr, 0)
             IN [err |-> u.err, weights |-> u.weights, delta_vec |-> dv]

(***************************************************************************)
(* FullyConnectedNN_np.predict_single_data, predict, __call__              *)
(***************************************************************************)
RECURSIVE PredictLoop(_, _, _)
PredictLoop(w, val, i) ==
  IF i >= Len(w)
  THEN [err |-> "", val |-> val]
  ELSE IF ~DotDefined(val, w[i + 1])
       THEN [err |-> "ValueError", val |-> val]
       ELSE PredictLoop(w, WithBias(activity(Dot(val, w[i + 1]))), i + 1)

NoResult == [kind |-> "none", rows |-> <<>>]

\* a plausible slip: "return val[0]", the bias
predict_single_data_bias(w, xin) ==
  LET h == PredictLoop(w, WithBias(xin), 0)
  IN IF h.err # "" THEN [err |-> h.err, ret |-> NoResult]
     ELSE IF Len(h.val) < 1 THEN [err |-> "IndexError", ret |-> NoResult]
     ELSE [err |-> "", ret |-> [kind |-> "scalar", rows |-> <<<<h.val[1]>>>>]]

\* predict_single_data(x): "return val[1]" is one number
predict_single_data(w, xin) ==
  LET h == PredictLoop(w, WithBias(xin), 0)
  IN IF h.err # "" THEN [err |-> h.err, ret |-> NoResult]
     ELSE IF Len(h.val) < 2 THEN [err |-> "IndexError", ret |-> NoResult]
     ELSE [err |-> "", ret |-> [kind |-> "scalar", rows |-> <<<<h.val[2]>>>>]]

\* for x in X: y = np.array([[...]]); Y = np.vstack((Y, y))
RECURSIVE PredictRows(_, _, _, _, _)
PredictRows(w, cols, Y, XX, i) ==
  IF i > Len(XX)
  THEN [err |-> "", ret |-> [kind |-> "array", rows |-> Y]]
  ELSE LET p == predict_single_data(w, XX[i])
       IN IF p.err # "" THEN [err |-> p.err, ret |-> NoResult]
          ELSE IF cols # 1 THEN [err |-> "ValueError", ret |-> NoResult]
          ELSE PredictRows(w, cols, Append(Y, p.ret.rows[1]), XX, i + 1)

\* predict(X): Y starts as an array of shape (0, self.arch[-1])
predict(w, net_arch, XX) ==
  IF Len(net_arch) = 0 THEN [err |-> "IndexError", ret |-> NoResult]
  ELSE IF net_arch[Len(net_arch)] < 0 THEN [err |-> "ValueError", ret |-> NoResult]
  ELSE PredictRows(w, net_arch[Len(net_arch)], <<>>, XX, 1)

(***************************************************************************)
(* Inputs.                                                                 *)
(***************************************************************************)
\* learning_rate=0.1, the default of fit
LearningRate == Scale \div 10

\* X and y of the notebook; a label is the one-component target
XorData == <<<<0, 0>>, <<0, One>>, <<One, 0>>, <<One, One>>>>

XorLabels == <<<<0>>, <<One>>, <<One>>, <<0>>>>

DataSets ==
  { [data |-> XorData, labels |-> XorLabels],
    [data |-> SubSeq(XorData, 1, 2), labels |-> SubSeq(XorLabels, 1, 2)],
    [data |-> SubSeq(XorData, 1, 2), labels |-> <<<<0, One>>, <<One, 0>>>>],
    [data |-> SubSeq(XorData, 1, 2),
     labels |-> <<<<0, One, 0>>, <<One, 0, One>>>>],
    [data |-> SubSeq(XorData, 1, 2), labels |-> SubSeq(XorLabels, 1, 1)] }

\* one dataset per data array, for the calls that read only the data
DataArgs == {d \in DataSets : d.labels = SubSeq(XorLabels, 1, Len(d.data))}

Archs ==
  { <<>>, <<5>>, <<2, 1>>, <<2, 2>>, <<2, 2, 1>>, <<2, 2, 2>>, <<3, 0, 2>>,
    <<2, -1>>, <<-2, 1>>, <<-1, 1>>, <<1, 1>> }

PredictInputs == { <<0, 0>>, <<One, 0>>, <<One, One>>, <<One, 0, One>> }

Seeds == 0..(RngModulus - 1)

(***************************************************************************)
(* State.                                                                  *)
(***************************************************************************)
VARIABLES
  rng,          \* state of NumPy's global generator
  X,            \* the notebook global X
  constructed,  \* the notebook global net is bound
  net_arch,     \* argument of the last constructor call
  arch,         \* net.arch
  layers,       \* net.layers
  weights,      \* net.weights
  pc,           \* "idle", or the position inside the running fit call
  Z,            \* fit: data with the bias column
  labels,       \* fit: argument labels
  epochs,       \* fit: argument epochs
  k,            \* fit: loop variable
  sample,       \* fit: local sample (-1: not yet bound)
  x,            \* fit: the list passed to _forward_prop
  y,            \* fit: the trace _forward_prop returned
  target,       \* fit: local target
  delta_vec,    \* gradient list of the last _back_prop call
  err,          \* exception raised by the last step ("" if none)
  op,           \* name of the last step
  ret,          \* value returned by the last predict call
  nback,        \* number of _back_prop calls of the current fit call
  nfit,         \* number of fit calls
  npred,        \* number of predict calls
  w0,           \* weights when the current fit call started
  cnn_pc,       \* CNN notebook: "idle", "train_loop" or "get_accuracy"
  net_kind,     \* CNN notebook: 0 net unbound, 1 CNN, 2 CNN with nn.Dropout
  training,     \* CNN notebook: net.training
  n_batch,      \* CNN notebook: batches processed by the running loop
  last_forward, \* CNN notebook: the last forward pass net(batch)
  ncell,        \* CNN notebook: number of cells run
  indices,      \* CNN notebook: the global indices (<<>>: unbound)
  scr_pc,       \* CNN notebook: "start", "shuffled" or "loaders"
  last_image,   \* CNN notebook: the last image a scrambled dataset delivered
  applied,      \* CNN notebook: the index arrays applied to images so far
  n_train,      \* CNN notebook: images delivered by the scrambled trainset
  n_test        \* CNN notebook: images delivered by the scrambled testset

vars == <<rng, X, constructed, net_arch, arch, layers, weights, pc, Z, labels,
          epochs, k, sample, x, y, target, delta_vec, err, op, ret, nback,
          nfit, npred, w0, cnn_pc, net_kind, training, n_batch, last_forward,
          ncell, indices, scr_pc, last_image, applied, n_train, n_test>>

scrvars == <<indices, scr_pc, last_image, applied, n_train, n_test>>

modevars == <<cnn_pc, net_kind, training, n_batch, last_forward, ncell>>

cnnvars == <<modevars, scrvars>>

fcvars == <<rng, X, constructed, net_arch, arch, layers, weights, pc, Z,
            labels, epochs, k, sample, x, y, target, delta_vec, err, op, ret,
            nback, nfit, npred, w0>>

NoImage == [set |-> "none", input |-> <<>>, output |-> <<>>]

NoForward == [by |-> "none", kind |-> 0, training |-> FALSE]

\* the CNN notebook before its first cell
CnnIdle ==
  /\ cnn_pc = "idle"
  /\ net_kind = 0
  /\ training = FALSE
  /\ n_batch = 0
  /\ last_forward = NoForward
  /\ ncell = 0
  /\ indices = <<>>
  /\ scr_pc = "start"
  /\ last_image = NoImage
  /\ applied = {}
  /\ n_train = 0
  /\ n_test = 0

netvars == <<constructed, arch, layers, weights>>

fitvars == <<Z, labels, epochs, k, sample, x, y, target, delta_vec, nback, w0>>

Init ==
  /\ rng \in Seeds
  /\ X = XorData
  /\ constructed = FALSE
  /\ net_arch = <<>>
  /\ arch = <<>>
  /\ layers = 0
  /\ weights = <<>>
  /\ pc = "idle"
  /\ Z = <<>>
  /\ labels = <<>>
  /\ epochs = 0
  /\ k = 0
  /\ sample = -1
  /\ x = <<>>
  /\ y = <<>>
  /\ target = <<>>
  /\ delta_vec = <<>>
  /\ err = ""
  /\ op = "start"
  /\ ret = NoResult
  /\ nback = 0
  /\ nfit = 0
  /\ npred = 0
  /\ w0 = <<>>
  /\ CnnIdle

(***************************************************************************)
(* Steps.                                                                  *)
(***************************************************************************)
\* X = np.array(...): the notebook global is bound to an array
AssignX(d) ==
  /\ pc = "idle"
  /\ X # d.data
  /\ X' = d.data
  /\ op' = "assign_X"
  /\ err' = ""
  /\ UNCHANGED <<cnnvars, rng, net_arch, netvars, pc, fitvars, ret, nfit, npred>>

\* net = FullyConnectedNN_np(a)
Construct(a) ==
  /\ pc = "idle"
  /\ ~constructed
  /\ LET r == Init_np(a, rng)
     IN /\ rng' = r.rng
        /\ err' = r.err
        /\ IF r.err = ""
           THEN /\ constructed' = TRUE
                /\ arch' = a
                /\ layers' = Len(a)
                /\ weights' = r.weights
           ELSE UNCHANGED netvars
  /\ net_arch' = a
  /\ op' = "init"
  /\ UNCHANGED <<cnnvars, X, pc, fitvars, ret, nfit, npred>>

\* net.fit(d.data, d.labels, epochs=e): lines up to the loop
FitCall(d, e) ==
  /\ pc = "idle"
  /\ constructed
  /\ nfit < MaxFits
  /\ nfit' = nfit + 1
  /\ Z' = [i \in 1..Len(d.data) |-> WithBias(d.data[i])]
  /\ labels' = d.labels
  /\ epochs' = e
  /\ k' = 0
  /\ sample' = -1
  /\ x' = <<>>
  /\ y' = <<>>
  /\ target' = <<>>
  /\ delta_vec' = <<>>
  /\ nback' = 0
  /\ w0' = weights
  /\ pc' = "loop"
  /\ op' = "fit_call"
  /\ err' = ""
  /\ UNCHANGED <<cnnvars, rng, X, net_arch, netvars, ret, npred>>

\* loop head, sample = np.random.randint(X.shape[0]), x = [Z[sample]]
FitSample ==
  /\ pc = "loop"
  /\ k < epochs
  /\ Len(X) > 0
  /\ rng' = RngNext(rng)
  /\ LET s == RngInt(rng', Len(X))
     IN /\ sample' = s
        /\ IF s + 1 > Len(Z)
           THEN /\ err' = "IndexError"
                /\ pc' = "idle"
                /\ x' = x
           ELSE /\ err' = ""
                /\ pc' = "forward"
                /\ x' = <<Z[s + 1]>>
  /\ op' = "fit_sample"
  /\ UNCHANGED <<cnnvars, X, net_arch, netvars, Z, labels, epochs, k, y, target,
                 delta_vec, nback, w0, ret, nfit, npred>>

\* a plausible slip: the _back_prop call is missing
FitForwardSkipsBackprop ==
  /\ pc = "forward"
  /\ LET r == forward_prop(weights, x)
     IN /\ x' = r.x
        /\ err' = r.err
        /\ IF r.err = ""
           THEN y' = r.y /\ pc' = "loop" /\ k' = k + 1
           ELSE y' = y /\ pc' = "idle" /\ k' = k
  /\ op' = "fit_forward"
  /\ UNCHANGED <<cnnvars, rng, X, net_arch, netvars, Z, labels, epochs, sample,
                 target, delta_vec, nback, w0, ret, nfit, npred>>

\* y = self._forward_prop(x)
FitForward ==
  /\ pc = "forward"
  /\ LET r == forward_prop(weights, x)
     IN /\ x' = r.x
        /\ err' = r.err
        /\ IF r.err = ""
           THEN y' = r.y /\ pc' = "backprop"
           ELSE y' = y /\ pc' = "idle"
  /\ op' = "fit_forward"
  /\ UNCHANGED <<cnnvars, rng, X, net_arch, netvars, Z, labels, epochs, k, sample,
                 target, delta_vec, nback, w0, ret, nfit, npred>>

\* a variant with the rollback the code does not have
FitBackpropRollback ==
  /\ pc = "backprop"
  /\ IF sample + 1 > Len(labels)
     THEN /\ err' = "IndexError"
          /\ pc' = "idle"
          /\ weights' = w0
          /\ UNCHANGED <<target, delta_vec, nback, k>>
     ELSE LET r == back_prop(weights, arch, layers, y, labels[sample + 1],
                             LearningRate)
          IN /\ target' = labels[sample + 1]
             /\ weights' = IF r.err = "" THEN r.weights ELSE w0
             /\ delta_vec' = r.delta_vec
             /\ nback' = nback + 1
             /\ err' = r.err
             /\ IF r.err = ""
                THEN k' = k + 1 /\ pc' = "loop"
                ELSE k' = k /\ pc' = "idle"
  /\ op' = "fit_backprop"
  /\ UNCHANGED <<cnnvars, rng, X, net_arch, constructed, arch, layers, Z, labels,
                 epochs, sample, x, y, w0, ret, nfit, npred>>

\* target = labels[sample]; self._back_prop(y, target, learning_rate)
FitBackprop ==
  /\ pc = "backprop"
  /\ IF sample + 1 > Len(labels)
     THEN /\ err' = "IndexError"
          /\ pc' = "idle"
          /\ UNCHANGED <<weights, target, delta_vec, nback, k>>
     ELSE LET r == back_prop(weights, arch, layers, y, labels[sample + 1],
                             LearningRate)
          IN /\ target' = labels[sample + 1]
             /\ weights' = r.weights
             /\ delta_vec' = r.delta_vec
             /\ nback' = nback + 1
             /\ err' = r.err
             /\ IF r.err = ""
                THEN k' = k + 1 /\ pc' = "loop"
                ELSE k' = k /\ pc' = "idle"
  /\ op' = "fit_backprop"
  /\ UNCHANGED <<cnnvars, rng, X, net_arch, constructed, arch, layers, Z, labels,
                 epochs, sample, x, y, w0, ret, nfit, npred>>

\* the loop is exhausted: fit returns
FitReturn ==
  /\ pc = "loop"
  /\ k >= epochs
  /\ pc' = "idle"
  /\ op' = "fit_return"
  /\ err' = ""
  /\ UNCHANGED <<cnnvars, rng, X, net_arch, netvars, fitvars, ret, nfit, npred>>

\* a plausible slip: the layer output is stored back into the network
PredictSingleStoring(xin) ==
  /\ pc = "idle"
  /\ constructed
  /\ npred < MaxPredicts
  /\ npred' = npred + 1
  /\ LET r == predict_single_data(weights, xin)
     IN /\ ret' = r.ret
        /\ err' = r.err
        /\ weights' = [i \in 1..Len(weights) |-> TwoTimesMinusOne(weights[i])]
  /\ op' = "predict_single_data"
  /\ UNCHANGED <<cnnvars, rng, X, net_arch, constructed, arch, layers, pc, fitvars, nfit>>

\* net.predict_single_data(xin)
PredictSingle(xin) ==
  /\ pc = "idle"
  /\ constructed
  /\ npred < MaxPredicts
  /\ npred' = npred + 1
  /\ LET r == predict_single_data(weights, xin)
     IN /\ ret' = r.ret
        /\ err' = r.err
  /\ op' = "predict_single_data"
  /\ UNCHANGED <<cnnvars, rng, X, net_arch, netvars, pc, fitvars, nfit>>

\* net.predict(d.data), also net(d.data)
Predict(d) ==
  /\ pc = "idle"
  /\ constructed
  /\ npred < MaxPredicts
  /\ npred' = npred + 1
  /\ LET r == predict(weights, arch, d.data)
     IN /\ ret' = r.ret
        /\ err' = r.err
  /\ op' = "predict"
  /\ UNCHANGED <<cnnvars, rng, X, net_arch, netvars, pc, fitvars, nfit>>

Next ==
  \/ \E d \in DataArgs : AssignX(d)
  \/ \E a \in Archs : Construct(a)
  \/ \E d \in DataSets, e \in 0..MaxEpochs : FitCall(d, e)
  \/ FitSample
  \/ FitForward
  \/ FitBackprop
  \/ FitReturn
  \/ \E xin \in PredictInputs : PredictSingle(xin)
  \/ \E d \in DataArgs : Predict(d)

Spec == Init /\ [][Next]_vars

(***************************************************************************)
(* _forward_prop as a function of the weights and the input: the network   *)
(* starts with all-zero weight matrices and _forward_prop is applied to    *)
(* inputs of the first layer's size.                                       *)
(***************************************************************************)
ZeroArchs == { <<1, 1>>, <<2, 1>>, <<2, 2>>, <<2, 2, 1>>, <<2, 2, 2>> }

\* components of an input vector, inf and nan among them
InputVals == { -One, 0, One \div 2, One, 2 * One, Inf, NaN }

\* all input vectors of length n
InputVectors(n) == [1..n -> InputVals]

\* np.zeros((r, c))
Zeros(r, c) == [r |-> r, c |-> c, a |-> [i \in 1..r |-> [j \in 1..c |-> 0]]]

\* one all-zero matrix per layer boundary of a
ZeroWeights(a) == [i \in 1..(Len(a) - 1) |-> Zeros(a[i] + 1, a[i + 1])]

InitZero ==
  /\ rng = 0
  /\ X = XorData
  /\ constructed = TRUE
  /\ net_arch \in ZeroArchs
  /\ arch = net_arch
  /\ layers = Len(net_arch)
  /\ weights = ZeroWeights(net_arch)
  /\ pc = "idle"
  /\ Z = <<>>
  /\ labels = <<>>
  /\ epochs = 0
  /\ k = 0
  /\ sample = -1
  /\ x = <<>>
  /\ y = <<>>
  /\ target = <<>>
  /\ delta_vec = <<>>
  /\ err = ""
  /\ op = "start"
  /\ ret = NoResult
  /\ nback = 0
  /\ nfit = 0
  /\ npred = 0
  /\ w0 = weights
  /\ CnnIdle

\* x = [np.concatenate((np.ones(1), xin))]; y = net._forward_prop(x)
ForwardCall(xin) ==
  /\ pc = "idle"
  /\ constructed
  /\ LET r == forward_prop(weights, <<WithBias(xin)>>)
     IN /\ x' = r.x
        /\ y' = r.y
        /\ err' = r.err
  /\ op' = "forward_prop"
  /\ UNCHANGED <<cnnvars, rng, X, net_arch, netvars, pc, Z, labels, epochs, k,
                 sample, target, delta_vec, ret, nback, nfit, npred, w0>>

NextZero == \E xin \in InputVectors(arch[1]) : ForwardCall(xin)

SpecZero == InitZero /\ [][NextZero]_vars

(***************************************************************************)
(* Single training steps and predictions on a constructed network: the     *)
(* body of fit's loop (_forward_prop, then _back_prop) applied to any      *)
(* sample and any target, well shaped or not, and predict_single_data      *)
(* side by side with _forward_prop on the same input.                      *)
(***************************************************************************)
BackArchs == { <<2, 1>>, <<2, 2>>, <<2, 2, 1>>, <<2, 2, 2>> }

BackInputs == { <<0, One>>, <<One, One>> }

BackTargets == { <<0>>, <<One>>, <<0, One>>, <<One, 0, One>> }

\* net = FullyConnectedNN_np(a) has run, with the generator in any state
InitBack ==
  /\ \E s \in Seeds, a \in BackArchs :
       LET r == Init_np(a, s)
       IN /\ rng = r.rng
          /\ net_arch = a
          /\ arch = a
          /\ layers = Len(a)
          /\ weights = r.weights
          /\ w0 = r.weights
  /\ X = XorData
  /\ constructed = TRUE
  /\ pc = "idle"
  /\ Z = <<>>
  /\ labels = <<>>
  /\ epochs = 0
  /\ k = 0
  /\ sample = -1
  /\ x = <<>>
  /\ y = <<>>
  /\ target = <<>>
  /\ delta_vec = <<>>
  /\ err = ""
  /\ op = "init"
  /\ ret = NoResult
  /\ nback = 0
  /\ nfit = 0
  /\ npred = 0
  /\ CnnIdle

\* x = [np.concatenate((np.ones(1), xin))]; y = net._forward_prop(x);
\* net._back_prop(y, t, learning_rate)
BackwardCall(xin, t) ==
  /\ pc = "idle"
  /\ constructed
  /\ nback < MaxBackCalls
  /\ LET f == forward_prop(weights, <<WithBias(xin)>>)
         b == back_prop(weights, arch, layers, f.y, t, LearningRate)
     IN /\ x' = f.x
        /\ IF f.err # ""
           THEN /\ err' = f.err
                /\ op' = "forward_prop"
                /\ UNCHANGED <<y, target, delta_vec, weights, w0, nback>>
           ELSE /\ y' = f.y
                /\ target' = t
                /\ w0' = weights
                /\ weights' = b.weights
                /\ delta_vec' = b.delta_vec
                /\ err' = b.err
                /\ op' = "back_prop"
                /\ nback' = nback + 1
  /\ UNCHANGED <<cnnvars, rng, X, net_arch, constructed, arch, layers, pc, Z,
                 labels, epochs, k, sample, ret, nfit, npred>>

\* net.predict_single_data(xin) and
\* net._forward_prop([np.concatenate((np.ones(1), xin))]), side by side
PredictAndForward(xin) ==
  /\ pc = "idle"
  /\ constructed
  /\ npred < MaxPredicts
  /\ npred' = npred + 1
  /\ LET p == predict_single_data(weights, xin)
         f == forward_prop(weights, <<WithBias(xin)>>)
     IN /\ ret' = p.ret
        /\ x' = f.x
        /\ y' = f.y
        /\ err' = IF p.err # "" THEN p.err ELSE f.err
  /\ op' = "predict_and_forward"
  /\ UNCHANGED <<cnnvars, rng, X, net_arch, netvars, pc, Z, labels, epochs, k,
                 sample, target, delta_vec, nback, nfit, w0>>

NextBack ==
  \/ \E xin \in BackInputs, t \in BackTargets : BackwardCall(xin, t)
  \/ \E xin \in BackInputs : PredictAndForward(xin)

SpecBack == InitBack /\ [][NextBack]_vars

(***************************************************************************)
(* 06_CNN_scrambledCIFAR10.ipynb: the cells that create a CNN, train it    *)
(* and measure its accuracy, run in any order, one at a time.  Only the    *)
(* module's mode (net.training) and the forward passes are modelled.       *)
(***************************************************************************)
InitCNN == Init /\ rng = 0

\* net = CNN(): a new module is in training mode
NewNet(kind) ==
  /\ cnn_pc = "idle"
  /\ ncell < MaxCells
  /\ ncell' = ncell + 1
  /\ net_kind' = kind
  /\ training' = TRUE
  /\ UNCHANGED <<fcvars, scrvars, cnn_pc, n_batch, last_forward>>

\* a plausible slip: the training cell without its net.train() line
TrainBeginNoTrainCall ==
  /\ cnn_pc = "idle"
  /\ net_kind # 0
  /\ ncell < MaxCells
  /\ ncell' = ncell + 1
  /\ cnn_pc' = "train_loop"
  /\ n_batch' = 0
  /\ UNCHANGED <<fcvars, scrvars, net_kind, training, last_forward>>

\* the training cell up to its loop: net.train()
TrainBegin ==
  /\ cnn_pc = "idle"
  /\ net_kind # 0
  /\ ncell < MaxCells
  /\ ncell' = ncell + 1
  /\ training' = TRUE
  /\ cnn_pc' = "train_loop"
  /\ n_batch' = 0
  /\ UNCHANGED <<fcvars, scrvars, net_kind, last_forward>>

\* one iteration of the training loop: outputs = net(batch), ..., step
TrainBatch ==
  /\ cnn_pc = "train_loop"
  /\ n_batch < MaxBatches
  /\ n_batch' = n_batch + 1
  /\ last_forward' = [by |-> "train_loop", kind |-> net_kind,
                      training |-> training]
  /\ UNCHANGED <<fcvars, scrvars, cnn_pc, net_kind, training, ncell>>

\* the training loop ends (exhausted or interrupted)
TrainEnd ==
  /\ cnn_pc = "train_loop"
  /\ cnn_pc' = "idle"
  /\ UNCHANGED <<fcvars, scrvars, net_kind, training, n_batch, last_forward,
                 ncell>>

\* get_accuracy(dataloader, net) up to its loop: model.eval()
AccuracyBegin ==
  /\ cnn_pc = "idle"
  /\ net_kind # 0
  /\ ncell < MaxCells
  /\ ncell' = ncell + 1
  /\ training' = FALSE
  /\ cnn_pc' = "get_accuracy"
  /\ n_batch' = 0
  /\ UNCHANGED <<fcvars, scrvars, net_kind, last_forward>>

\* one iteration of get_accuracy's loop: outputs = model(batch)
AccuracyBatch ==
  /\ cnn_pc = "get_accuracy"
  /\ n_batch < MaxBatches
  /\ n_batch' = n_batch + 1
  /\ last_forward' = [by |-> "get_accuracy", kind |-> net_kind,
                      training |-> training]
  /\ UNCHANGED <<fcvars, scrvars, cnn_pc, net_kind, training, ncell>>

\* get_accuracy returns (or is interrupted)
AccuracyEnd ==
  /\ cnn_pc = "get_accuracy"
  /\ cnn_pc' = "idle"
  /\ UNCHANGED <<fcvars, scrvars, net_kind, training, n_batch, last_forward,
                 ncell>>

NextCNN ==
  \/ \E kind \in {1, 2} : NewNet(kind)
  \/ TrainBegin
  \/ TrainBatch
  \/ TrainEnd
  \/ AccuracyBegin
  \/ AccuracyBatch
  \/ AccuracyEnd

SpecCNN == InitCNN /\ [][NextCNN]_vars

(***************************************************************************)
(* 06_CNN_scrambledCIFAR10.ipynb: the cell that defines scramble_image and  *)
(* shuffles indices, the cell that builds the scrambled datasets, and the  *)
(* images these datasets deliver.  An image is a sequence of Channels      *)
(* rows of Pixels values.                                                  *)
(***************************************************************************)
\* np.arange(n)
Arange(n) == [i \in 1..n |-> i - 1]

\* a plausible slip: a[i] = a[j] without the second half of the swap
RECURSIVE ShuffleLoopOverwrite(_, _, _)
ShuffleLoopOverwrite(s, a, i) ==
  IF i < 1
  THEN [rng |-> s, a |-> a]
  ELSE LET s1 == RngNext(s)
           j == RngInt(s1, i + 1)
       IN ShuffleLoopOverwrite(s1, [a EXCEPT ![i + 1] = a[j + 1]], i - 1)

\* np.random.shuffle: for i = n-1 down to 1, swap a[i] and a[randint(i+1)]
RECURSIVE ShuffleLoop(_, _, _)
ShuffleLoop(s, a, i) ==
  IF i < 1
  THEN [rng |-> s, a |-> a]
  ELSE LET s1 == RngNext(s)
           j == RngInt(s1, i + 1)
       IN ShuffleLoop(s1, [a EXCEPT ![i + 1] = a[j + 1], ![j + 1] = a[i + 1]],
                      i - 1)

\* np.random.shuffle(a) with the generator in state s
shuffle(s, a) == ShuffleLoop(s, a, Len(a) - 1)

\* tensor.view(-1)
Flatten(tensor) ==
  [q \in 1..(Channels * Pixels) |->
     tensor[((q - 1) \div Pixels) + 1][((q - 1) % Pixels) + 1]]

\* flat[idx]: indexing with an array of positions
Take(flat, idx) == [q \in 1..Len(idx) |-> flat[idx[q] + 1]]

\* flat.view(3, 32, 32)
View(flat) ==
  [c \in 1..Channels |-> [q \in 1..Pixels |-> flat[(c - 1) * Pixels + q]]]

\* def scramble_image(tensor, indices)
scramble_image(tensor, idx) == View(Take(Flatten(tensor), idx))

\* an image whose values are all different, starting after b
Ramp(b) ==
  [c \in 1..Channels |-> [q \in 1..Pixels |-> b + (c - 1) * Pixels + q]]

\* an image of one value
Flat(v) == [c \in 1..Channels |-> [q \in 1..Pixels |-> v]]

\* images of CIFAR10's training part and test part, after Normalize
TrainImages == { Ramp(0), Ramp(100), Flat(5) }

TestImages == { Ramp(50), Flat(5), Flat(-5) }

\* indices = np.arange(3*32*32); np.random.shuffle(indices)
ShuffleCell ==
  /\ scr_pc = "start"
  /\ LET r == shuffle(rng, Arange(Channels * Pixels))
     IN /\ indices' = r.a
        /\ rng' = r.rng
  /\ scr_pc' = "shuffled"
  /\ UNCHANGED <<modevars, X, net_arch, netvars, pc, fitvars, err, op, ret,
                 nfit, npred, last_image, applied, n_train, n_test>>

\* transform = ...Lambda(lambda tens: scramble_image(tens, indices));
\* trainset, trainloader, testset, testloader
LoaderCell ==
  /\ scr_pc = "shuffled"
  /\ scr_pc' = "loaders"
  /\ UNCHANGED <<modevars, fcvars, indices, last_image, applied, n_train,
                 n_test>>

\* trainset delivers an image: the transform reads the global indices
LoadTrain(img) ==
  /\ scr_pc = "loaders"
  /\ n_train < MaxImages
  /\ n_train' = n_train + 1
  /\ last_image' = [set |-> "train", input |-> img,
                    output |-> scramble_image(img, indices)]
  /\ applied' = applied \cup {indices}
  /\ UNCHANGED <<modevars, fcvars, indices, scr_pc, n_test>>

\* testset delivers an image, through the same transform
LoadTest(img) ==
  /\ scr_pc = "loaders"
  /\ n_test < MaxImages
  /\ n_test' = n_test + 1
  /\ last_image' = [set |-> "test", input |-> img,
                    output |-> scramble_image(img, indices)]
  /\ applied' = applied \cup {indices}
  /\ UNCHANGED <<modevars, fcvars, indices, scr_pc, n_train>>

NextScramble ==
  \/ ShuffleCell
  \/ LoaderCell
  \/ \E img \in TrainImages : LoadTrain(img)
  \/ \E img \in TestImages : LoadTest(img)

SpecScramble == Init /\ [][NextScramble]_vars

(***************************************************************************)
(* Properties.                                                             *)
(***************************************************************************)
Tolerance == 2        \* rounding allowance, in units of 1 / Scale

\* the architectures of the data model: at least two layers, all positive
ValidArch(a) == Len(a) >= 2 /\ \A i \in 1..Len(a) : a[i] > 0

\* weight matrix i of ws is a real (a[i] + 1) x a[i+1] array
ShapesFollow(ws, a) ==
  \A i \in 1..Len(ws) :
    /\ i + 1 <= Len(a)
    /\ WellFormed(ws[i])
    /\ Shape(ws[i]) = <<a[i] + 1, a[i + 1]>>

\* the running or last fit call got well-shaped samples and labels
FitInputsValid ==
  /\ ValidArch(arch)
  /\ Len(labels) = Len(Z)
  /\ \A i \in 1..Len(Z) :
       Len(Z[i]) = arch[1] + 1 /\ Len(labels[i]) = arch[Len(arch)]

\* a fit call has just ended, by return or by exception
FitEnded ==
  pc = "idle" /\ op \in {"fit_sample", "fit_forward", "fit_backprop", "fit_return"}

\* C1: for every architecture with n >= 1 boundaries and positive sizes, the
\* constructor yields exactly n weight matrices and matrix i has shape
\* (a_i + 1, a_(i+1)).
C1_ConstructShapes ==
  (op = "init" /\ ValidArch(net_arch)) =>
     /\ err = ""
     /\ Len(weights) = Len(net_arch) - 1
     /\ ShapesFollow(weights, net_arch)

C1_Witness ==
  op = "init" /\ err = "" /\ net_arch = <<2, 2, 1>> /\ Len(weights) = 2

\* C2: in every state reached by constructing and then fitting and predicting
\* in any order, there are len(arch) - 1 weight matrices and matrix i has
\* 1 + arch[i] rows and arch[i+1] columns.
C2_ShapeInvariant ==
  (constructed /\ ValidArch(arch)) =>
     /\ Len(weights) = Len(arch) - 1
     /\ \A i \in 1..Len(weights) :
          /\ weights[i].r = 1 + arch[i]
          /\ weights[i].c = arch[i + 1]
          /\ WellFormed(weights[i])

C2_Witness ==
  /\ constructed /\ ValidArch(arch)
  /\ op = "fit_return" /\ epochs >= 1 /\ nback = epochs
  /\ weights # w0
  /\ npred >= 1

\* C3: a fit call with epochs = N ends after exactly N iterations and N
\* _back_prop calls, whatever the (well-shaped) data and labels are; with
\* N = 0 the weights are left unchanged.
C3_ExactlyNUpdates ==
  (FitEnded /\ FitInputsValid) =>
     /\ err = ""
     /\ k = epochs
     /\ nback = epochs
     /\ (epochs = 0 => weights = w0)

\* C4: in every iteration of fit the selected sample index is an index of
\* the training set passed to that call, 0 .. len(samples) - 1.
C4_SampleFromTrainingSet ==
  (sample # -1) => sample \in 0..(Len(Z) - 1)

\* C5: no predict call (predict_single_data, predict, __call__) changes a
\* weight matrix.
C5_PredictKeepsWeights ==
  [][npred' # npred => weights' = weights]_vars

C5_Witness ==
  /\ op \in {"predict_single_data", "predict"}
  /\ err = ""
  /\ ValidArch(arch)
  /\ nfit >= 1 /\ weights # w0

\* C6: predict_single_data returns all k values of the last layer, for every
\* size k >= 1 of the last layer.
C6_PredictWholeLayer ==
  (op = "predict_single_data" /\ err = "" /\ ValidArch(arch)) =>
     Len(ret.rows[1]) = arch[Len(arch)]

\* C7: _forward_prop has no side effect: when it has returned, the list the
\* caller passed still is the one-element list [Z[sample]].
C7_ForwardLeavesArgument ==
  (op = "fit_forward" /\ err = "") => x = <<Z[sample + 1]>>

\* C8: the gradient of the output layer is error * (1 - output^2) with
\* error = target - output (up to rounding).
C8_DerivativeIsOneMinusSquare ==
  (op = "fit_backprop" /\ err = "" /\ FitInputsValid) =>
     LET out == y[Len(y)]
         g == delta_vec[Len(delta_vec)]
         e == VecSub(target, out)
     IN \A i \in 1..Len(out) :
          Abs(g[i] - Mul(e[i], Scale - Mul(out[i], out[i]))) <= Tolerance

\* some requested array dimension is negative
NegativeDimension(a) ==
  \E i \in 1..(Len(a) - 1) : a[i] + 1 < 0 \/ a[i + 1] < 0

\* C9 (as stated): the constructor fails, and no network is produced, when
\* the architecture has fewer than 2 layers or a non-positive layer size.
C9_InvalidArchitectureRaised ==
  (op = "init" /\ ~ValidArch(net_arch)) => (err # "" /\ ~constructed)

\* C9 (amended): the constructor validates nothing.  It fails, with NumPy's
\* ValueError and without producing a network, exactly when a requested
\* array dimension a_i + 1 or a_(i+1) is negative; otherwise it succeeds,
\* with no weight matrix for fewer than 2 layers and with a matrix of shape
\* (a_i + 1, a_(i+1)) per boundary, also for zero sizes.
C9_ConstructValidatesNothing ==
  (op = "init") =>
     /\ err \in {"", "ValueError"}
     /\ (err = "ValueError") <=> NegativeDimension(net_arch)
     /\ (err # "") => ~constructed
     /\ (err = "") =>
          /\ constructed
          /\ arch = net_arch
          /\ Len(weights) = (IF Len(net_arch) = 0 THEN 0 ELSE Len(net_arch) - 1)
          /\ ShapesFollow(weights, net_arch)

C9_Witness ==
  /\ op = "init" /\ err = "" /\ constructed
  /\ net_arch = <<3, 0, 2>>
  /\ Shape(weights[1]) = <<4, 0>> /\ Shape(weights[2]) = <<1, 2>>

\* a _back_prop call was made by the last step, on a well-formed trace
BackpropCalled ==
  /\ op = "fit_backprop" /\ nback >= 1 /\ sample + 1 <= Len(labels)
  /\ ValidArch(arch) /\ Len(y) = Len(arch)

\* C10 (as stated): _back_prop fails for every target whose length differs
\* from the size of the output layer.
C10_MismatchAlwaysRaised ==
  (BackpropCalled /\ Len(target) # arch[Len(arch)]) => err # ""

\* C10 (amended): _back_prop fails, with NumPy's ValueError, for every
\* target whose length differs from the size of the output layer and is not
\* 1; a target of length 1 is broadcast over the outputs and the call
\* succeeds.
C10_MismatchRaisedUnlessBroadcast ==
  BackpropCalled =>
     /\ (Len(target) # arch[Len(arch)] /\ Len(target) # 1) => err = "ValueError"
     /\ (Len(target) = arch[Len(arch)] \/ Len(target) = 1) => err = ""

C10_Witness ==
  /\ BackpropCalled
  /\ arch = <<2, 2, 1>>
  /\ Len(target) = 2
  /\ err = "ValueError"

\* C11 (as stated): when a fit call fails in any iteration, the weights
\* after the failure equal the weights before the call.
C11_FitAllOrNothing ==
  (FitEnded /\ err # "") => weights = w0

\* C11 (amended): fit has no rollback.  The step that fails changes no weight
\* and completes no iteration, so the weights after a failure are those left
\* by the iterations completed before it; they are the weights before the
\* call when no iteration was completed.
C11_FailureKeepsEarlierUpdates ==
  [][(pc # "idle" /\ pc' = "idle" /\ err' # "") =>
       /\ weights' = weights
       /\ k' = k
       /\ (k' = 0 => weights' = w0')]_vars

C11_Witness ==
  /\ FitEnded /\ op = "fit_backprop" /\ err = "IndexError"
  /\ Len(Z) = Len(X) /\ sample + 1 > Len(labels)
  /\ k >= 1 /\ nback = k /\ weights # w0

\* C12: _forward_prop returns one vector per layer; every entry but the last
\* has length arch[i] + 1 and starts with the constant 1, the last entry has
\* length arch[last] and no bias.
C12_TraceShape ==
  (op = "fit_forward" /\ ValidArch(arch) /\ Len(Z[sample + 1]) = arch[1] + 1) =>
     /\ err = ""
     /\ Len(y) = Len(arch)
     /\ \A i \in 1..(Len(y) - 1) : Len(y[i]) = arch[i] + 1 /\ y[i][1] = One
     /\ Len(y[Len(y)]) = arch[Len(arch)]

C12_Witness ==
  /\ op = "fit_forward" /\ err = ""
  /\ arch = <<2, 2, 1>>
  /\ Len(y) = 3 /\ Len(y[3]) = 1

\* C14: _forward_prop given an input whose length differs from the first
\* layer's size fails with a shape error (NumPy's ValueError) and leaves
\* every weight matrix unchanged.
C14_WrongInputLengthRaises ==
  [][(pc = "forward" /\ op' = "fit_forward" /\ ValidArch(arch)
        /\ Len(x[1]) # arch[1] + 1) =>
       (err' = "ValueError" /\ pc' = "idle" /\ weights' = weights)]_vars

C14_Witness ==
  /\ op = "fit_forward" /\ err = "ValueError" /\ pc = "idle"
  /\ arch = <<1, 1>>
  /\ Len(Z[sample + 1]) = 3

\* C15: every entry of every weight matrix the constructor produces lies
\* strictly between -1 and 1.
C15_WeightsInsideOpenInterval ==
  (op = "init" /\ err = "") =>
     \A i \in 1..Len(weights) :
       \A r \in 1..weights[i].r : \A c \in 1..weights[i].c :
         -Scale < weights[i].a[r][c] /\ weights[i].a[r][c] < Scale

\* C16 (as stated): with all weight matrices zero, _forward_prop returns for
\* every input a trace whose last entry is all zeros and whose hidden
\* entries are the bias 1 followed by zeros.
C16_ZeroWeightsZeroOutput ==
  (op = "forward_prop") =>
     /\ err = ""
     /\ Len(y) = Len(arch)
     /\ \A j \in 1..Len(y[Len(y)]) : y[Len(y)][j] = 0
     /\ \A i \in 2..(Len(y) - 1) :
          /\ y[i][1] = One
          /\ \A j \in 2..Len(y[i]) : y[i][j] = 0

\* every component of the input of the last _forward_prop call is a number
FiniteInput == \A j \in 2..Len(y[1]) : Finite(y[1][j])

\* C16 (amended): with all weight matrices zero, _forward_prop returns for
\* every input of finite components a trace whose last entry is all zeros
\* and whose hidden entries are the bias 1 followed by zeros; for an input
\* with an inf or nan component (inf * 0 is nan) the last entry and the
\* non-bias part of every hidden entry are all nan.
C16_ZeroWeightsFiniteInput ==
  (op = "forward_prop") =>
     LET v == IF FiniteInput THEN 0 ELSE NaN
     IN /\ err = ""
        /\ Len(y) = Len(arch)
        /\ \A j \in 1..Len(y[Len(y)]) : y[Len(y)][j] = v
        /\ \A i \in 2..(Len(y) - 1) :
             /\ y[i][1] = One
             /\ \A j \in 2..Len(y[i]) : y[i][j] = v

C16_Witness ==
  /\ op = "forward_prop" /\ err = ""
  /\ arch = <<2, 2, 1>>
  /\ y = <<<<One, 2 * One, -One>>, <<One, 0, 0>>, <<0>>>>

\* nn.Dropout drops activations in this forward pass
DropoutActive(f) == f.kind = 2 /\ f.training

\* C17: every forward pass of get_accuracy runs in eval mode (dropout
\* disabled) and every forward pass of a training loop runs in training mode
\* (dropout enabled when the net has a dropout layer), whatever cells ran
\* before; no get_accuracy call changes the mode inside a training loop.
C17_DropoutFollowsPhase ==
  /\ (last_forward.by = "get_accuracy") =>
        (~last_forward.training /\ ~DropoutActive(last_forward))
  /\ (last_forward.by = "train_loop") =>
        (last_forward.training
         /\ (last_forward.kind = 2 => DropoutActive(last_forward)))
  /\ (cnn_pc = "get_accuracy") => ~training
  /\ (cnn_pc = "train_loop") => training

C17_Witness ==
  /\ ncell = 4
  /\ cnn_pc = "train_loop"
  /\ last_forward = [by |-> "train_loop", kind |-> 2, training |-> TRUE]
  /\ n_batch = 1

\* C19: a successful _back_prop call updates every layer boundary i exactly
\* once by W[i] := W[i] + learning_rate * outer(y[i], delta_vec[i]).
C19_UpdateRule ==
  [][(pc = "backprop" /\ op' = "fit_backprop" /\ err' = "") =>
       /\ Len(weights') = Len(weights)
       /\ Len(delta_vec') = Len(weights)
       /\ \A i \in 1..Len(weights) :
            \A r \in 1..weights[i].r : \A c \in 1..weights[i].c :
              weights'[i].a[r][c] =
                weights[i].a[r][c]
                  + Mul(LearningRate, Mul(y[i][r], delta_vec'[i][c]))]_vars

C19_Witness ==
  /\ op = "fit_backprop" /\ err = ""
  /\ arch = <<2, 2, 1>>
  /\ weights[1] # w0[1] /\ weights[2] # w0[2]

\* C20: inside fit every iteration runs draw sample, _forward_prop,
\* _back_prop in this order; the weights change only in the _back_prop step,
\* a sample is drawn only when every earlier iteration's update is complete,
\* and the output _forward_prop returns is computed from the weights as the
\* last update left them.
C20_IterationOrder ==
  [][/\ (pc = "loop") => (pc' \in {"forward", "idle"})
     /\ (pc = "forward") =>
          (pc' \in {"backprop", "idle"} /\ weights' = weights /\ sample' = sample)
     /\ (pc = "backprop") =>
          /\ pc' \in {"loop", "idle"}
          /\ sample' = sample
          /\ (pc' = "loop") => (k' = k + 1 /\ nback' = nback + 1)
     /\ (pc' = "forward") =>
          (pc = "loop" /\ nback = k /\ weights' = weights /\ x' = <<Z[sample' + 1]>>)
     /\ (pc' = "backprop") =>
          /\ pc = "forward"
          /\ y'[Len(y')] =
               activity(Dot(y'[Len(y') - 1], weights'[Len(weights')]))
     /\ (weights' # weights) => (pc = "backprop" \/ op' = "init")]_vars

C20_Witness ==
  pc = "backprop" /\ k = 1 /\ nback = 1 /\ weights # w0

\* the last step was a _back_prop call that returned
BackpropReturned == op = "back_prop" /\ err = ""

\* error * activity_derivative(y[-1]) for the trace and target of the call
OutputGradient ==
  VecMul(VecSub(target, y[Len(y)]), activity_derivative(y[Len(y)]))

\* the gradient of hidden layer i + 1, from the gradient g of the layer after
\* it and the weights ws, the bias row excluded
HiddenGradient(ws, g, i) ==
  VecMul(Dot(g, Transpose(Rows1(ws[i + 1]))),
         activity_derivative(Tail1(y[i + 1])))

\* C21: _back_prop builds one gradient vector per layer boundary, front to
\* back, gradient i of length arch[i+1]; the last one is the output
\* gradient, and each hidden one comes from the gradient after it and the
\* downstream weight matrix without its bias row, so it has one component
\* per non-bias unit.
C21_GradientTrace ==
  BackpropReturned =>
     /\ Len(delta_vec) = Len(arch) - 1
     /\ \A i \in 1..Len(delta_vec) : Len(delta_vec[i]) = arch[i + 1]
     /\ delta_vec[Len(delta_vec)] = OutputGradient
     /\ \A i \in 1..(Len(delta_vec) - 1) :
          /\ Len(delta_vec[i]) = Len(y[i + 1]) - 1
          /\ Len(delta_vec[i]) = Rows1(w0[i + 1]).r
          /\ delta_vec[i] = HiddenGradient(w0, delta_vec[i + 1], i)

C21_Witness ==
  /\ BackpropReturned
  /\ arch = <<2, 2, 2>>
  /\ Len(delta_vec) = 2
  /\ delta_vec[1] # delta_vec[2]
  /\ \E j \in 1..2 : delta_vec[1][j] # 0

\* C22: all gradients of a _back_prop call are computed from the weights as
\* they were when the call started, also when the call changed every weight
\* matrix: no update of the call reaches a gradient of the same call.
C22_GradientsFromCallStartWeights ==
  BackpropReturned =>
     delta_vec =
       Reverse(DeltaLoop(w0, y, <<OutputGradient>>, layers - 2).delta_vec)

C22_Witness ==
  /\ BackpropReturned
  /\ arch = <<2, 2, 1>>
  /\ nback = 2
  /\ weights[1] # w0[1] /\ weights[2] # w0[2]
  /\ delta_vec #
       Reverse(DeltaLoop(weights, y, <<OutputGradient>>, layers - 2).delta_vec)

\* C23: predict_single_data(x) equals the first component of the last entry
\* of the trace _forward_prop returns for the bias-prefixed x, for every
\* weight state and every input of length arch[0].
C23_PredictAgreesWithForward ==
  (op = "predict_and_forward" /\ Len(x[1]) = arch[1] + 1) =>
     /\ err = ""
     /\ ret.kind = "scalar"
     /\ ret.rows = <<<<y[Len(y)][1]>>>>

C23_Witness ==
  /\ op = "predict_and_forward" /\ err = ""
  /\ arch = <<2, 2, 2>>
  /\ nback = 2 /\ weights # w0
  /\ ret.rows[1][1] # 0
  /\ y[3][1] # y[3][2]

\* C24: a _back_prop call that fails on a wrongly shaped target leaves every
\* weight matrix as it was: a call changes all weight matrices or none.
C24_FailedBackpropKeepsWeights ==
  (op = "back_prop") =>
     /\ (err # "") => (err = "ValueError" /\ weights = w0)
     /\ (\E i \in 1..Len(weights) : weights[i] # w0[i]) => err = ""

C24_Witness ==
  /\ op = "back_prop" /\ err = "ValueError"
  /\ arch = <<2, 2, 1>>
  /\ target = <<0, One>>
  /\ nback = 2
  /\ weights = w0

\* number of positions of s that hold v
Count(s, v) == Cardinality({i \in 1..Len(s) : s[i] = v})

\* s holds every position 0 .. Len(s) - 1 exactly once
IsPermutation(s) == \A v \in 0..(Len(s) - 1) : Count(s, v) = 1

\* C25: indices is a shuffle of 0 .. n-1, each position exactly once; every
\* image a scrambled dataset delivers holds exactly the values of its input
\* (none lost, none duplicated), moved by indices; and one and the same
\* indices is applied to every training and every test image.
C25_FixedPermutation ==
  /\ (scr_pc # "start") =>
        (Len(indices) = Channels * Pixels /\ IsPermutation(indices))
  /\ (last_image.set # "none") =>
        LET fin == Flatten(last_image.input)
            fout == Flatten(last_image.output)
        IN /\ \A q \in 1..Len(fout) : fout[q] = fin[indices[q] + 1]
           /\ \A q \in 1..Len(fin) : Count(fout, fin[q]) = Count(fin, fin[q])
           /\ Len(fout) = Len(fin)
  /\ applied \subseteq {indices}

C25_Witness ==
  /\ last_image.set = "test"
  /\ n_train = MaxImages
  /\ indices # Arange(Channels * Pixels)
  /\ last_image.input = Ramp(50)
  /\ last_image.output # last_image.input
  /\ applied = {indices}

====
